---------------------------- MODULE Spec2Model ----------------------------
(***************************************************************************)
(* A model of asciimatics/widgets.py: the Frame / Layout / Widget triad.   *)
(*                                                                         *)
(* Strings are sequences of character codes (chr(k) is the one-character   *)
(* string <<k>>), Python lists are sequences, and every index kept in the  *)
(* state is the 0-based index the source keeps.  An exception raised by    *)
(* the code is recorded in the field `raised`; the state it leaves behind  *)
(* is the partially updated one.                                           *)
(***************************************************************************)
EXTENDS Integers, Sequences, FiniteSets, TLC

(***************************************************************************)
(* Bounds of the model.                                                    *)
(***************************************************************************)
\* longest string a Text widget or a TextBox line may grow to
MaxLen == 3
\* most lines a TextBox may grow to
MaxLines == 3
\* widest column a stand-alone widget is laid out in
MaxWidth == 4
\* largest `height` parameter a stand-alone TextBox is built with
MaxHeight == 2
\* longest string a widget inside a Frame may be typed to
MaxTyped == 1

(***************************************************************************)
(* Python built-ins.                                                       *)
(***************************************************************************)
Max(a, b) == IF a >= b THEN a ELSE b

Min(a, b) == IF a <= b THEN a ELSE b

\* a slice bound i of a sequence of length n, as Python normalises it
SliceBound(i, n) == IF i < 0 THEN Max(n + i, 0) ELSE Min(i, n)

\* s[a:b]
Slice(s, a, b) == SubSeq(s, SliceBound(a, Len(s)) + 1, SliceBound(b, Len(s)))

\* s[:b]
SliceTo(s, b) == Slice(s, 0, b)

\* s[a:]
SliceFrom(s, a) == Slice(s, a, Len(s))

\* list.insert(i, x) for 0 <= i
ListInsert(s, i, x) == SliceTo(s, i) \o <<x>> \o SliceFrom(s, i)

\* the list left by list.pop(i) for 0 <= i < len
ListRemove(s, i) == SliceTo(s, i) \o SliceFrom(s, i + 1)

\* whether s[i] exists (negative indices count from the end)
HasIndex(s, i) == -Len(s) <= i /\ i < Len(s)

\* s[i] where HasIndex(s, i)
Index(s, i) == IF i < 0 THEN s[Len(s) + i + 1] ELSE s[i + 1]

\* the position (1-based) of s[i] where HasIndex(s, i)
Pos(s, i) == IF i < 0 THEN Len(s) + i + 1 ELSE i + 1

RECURSIVE Split(_, _)
\* str.split(sep) for a one-character separator
Split(s, sep) ==
    IF \E i \in 1..Len(s) : s[i] = sep
    THEN LET i == CHOOSE j \in 1..Len(s) :
                      s[j] = sep /\ \A k \in 1..(j - 1) : s[k] /= sep
         IN  <<SubSeq(s, 1, i - 1)>> \o Split(SubSeq(s, i + 1, Len(s)), sep)
    ELSE <<s>>

(***************************************************************************)
(* Events and key codes (asciimatics.event, asciimatics.screen.Screen).    *)
(***************************************************************************)
KEY_ESCAPE == -1
KEY_HOME == -200
KEY_END == -201
KEY_LEFT == -203
KEY_UP == -204
KEY_RIGHT == -205
KEY_DOWN == -206
KEY_BACK == -300
KEY_TAB == -301
KEY_BACK_TAB == -302

KeyboardEvent(key_code) == [type |-> "KeyboardEvent", key_code |-> key_code]

MouseEvent == [type |-> "MouseEvent", key_code |-> 0]

\* what a handler returns when it consumed the event
None == [type |-> "None", key_code |-> 0]

IsKeyboardEvent(event) == event.type = "KeyboardEvent"

\* line feed, as a character of a text
LF == 10

CR == 13

(***************************************************************************)
(* Widget: the fields every widget has.                                    *)
(***************************************************************************)
\* the constructors' `label` argument: NoLabel is Python's None
NoLabel == [has_label |-> FALSE, label |-> <<>>]

WithLabel(s) == [has_label |-> TRUE, label |-> s]

Widget_set_layout(self, x, y, offset, w, h) ==
    [self EXCEPT !.x = x, !.y = y, !.offset = offset, !.w = w, !.h = h]

Widget_blur(self) == [self EXCEPT !.has_focus = FALSE]

(***************************************************************************)
(* Text                                                                    *)
(***************************************************************************)
Text(text, label) ==
    [kind |-> "Text", is_tab_stop |-> TRUE, has_focus |-> FALSE,
     label |-> label.label, has_label |-> label.has_label, value |-> None,
     x |-> 0, y |-> 0, w |-> 0, h |-> 0, offset |-> 0,
     text |-> text, column |-> 0, start_column |-> 0]

Text_update(self) ==
    LET width == self.w - self.offset
    IN  [self EXCEPT !.start_column =
            Max(0, Max(self.column - width + 1,
                       Min(self.start_column, self.column)))]

\* Text_reset with the cursor put at the start of the text
Text_reset_Home(self) ==
    [self EXCEPT !.value = self.text, !.column = 0]

Text_reset(self) ==
    [self EXCEPT !.value = self.text, !.column = Len(self.text)]

\* TextInsert with the cursor left where it was
TextInsert_NoAdvance(self, key_code) ==
    [self EXCEPT !.value = SliceTo(self.value, self.column)
                           \o <<key_code>>
                           \o SliceFrom(self.value, self.column)]

\* the branch of a visible character: insert it at the cursor
TextInsert(self, key_code) ==
    [self EXCEPT !.value = SliceTo(self.value, self.column)
                           \o <<key_code>>
                           \o SliceFrom(self.value, self.column),
                 !.column = self.column + 1]

Text_process_event(self, event) ==
    IF IsKeyboardEvent(event)
    THEN CASE event.key_code = KEY_BACK ->
                [w |-> IF self.column > 0
                       THEN [self EXCEPT
                               !.value = SliceTo(self.value, self.column - 1)
                                         \o SliceFrom(self.value, self.column),
                               !.column = self.column - 1]
                       ELSE self,
                 event |-> None]
           [] event.key_code = KEY_LEFT ->
                [w |-> [self EXCEPT !.column = Max(self.column - 1, 0)],
                 event |-> None]
           [] event.key_code = KEY_RIGHT ->
                [w |-> [self EXCEPT
                          !.column = Min(Len(self.value), self.column + 1)],
                 event |-> None]
           [] event.key_code = KEY_HOME ->
                [w |-> [self EXCEPT !.column = 0], event |-> None]
           [] event.key_code = KEY_END ->
                [w |-> [self EXCEPT !.column = Len(self.value)],
                 event |-> None]
           [] 32 <= event.key_code /\ event.key_code < 256 ->
                [w |-> TextInsert(self, event.key_code), event |-> None]
           [] OTHER -> [w |-> self, event |-> event]
    ELSE [w |-> self, event |-> event]

Text_required_height(self, offset, width) == 1

(***************************************************************************)
(* The canvas of the Frame (asciimatics.screen.Canvas): the part of the    *)
(* rendering surface the widgets read and scroll.                          *)
(***************************************************************************)
Canvas(height, width) ==
    [height |-> height, width |-> width, start_line |-> 0]

Canvas_is_visible(canvas, x, y) ==
    /\ x >= 0
    /\ x <= canvas.width
    /\ y >= canvas.start_line
    /\ y < canvas.start_line + canvas.height

Canvas_scroll_to(canvas, line) == [canvas EXCEPT !.start_line = line]

Canvas_reset(canvas) == [canvas EXCEPT !.start_line = 0]

\* Widget.focus: the widget and the canvas it leaves
Widget_focus(self, canvas) ==
    [w |-> [self EXCEPT !.has_focus = TRUE],
     canvas |->
        IF ~Canvas_is_visible(canvas, self.x, self.y)
        THEN IF self.y < canvas.start_line
             THEN Canvas_scroll_to(canvas, self.y)
             ELSE Canvas_scroll_to(canvas,
                      Max(0, self.y - canvas.height + self.h))
        ELSE canvas]

(***************************************************************************)
(* Label and Divider                                                       *)
(***************************************************************************)
Label(label) ==
    [kind |-> "Label", is_tab_stop |-> FALSE, has_focus |-> FALSE,
     label |-> <<>>, has_label |-> FALSE, value |-> None,
     x |-> 0, y |-> 0, w |-> 0, h |-> 0, offset |-> 0,
     text |-> label]

Label_process_event(self, event) == [w |-> self, event |-> event]

Label_required_height(self, offset, width) == 2

Divider(draw_line, height) ==
    [kind |-> "Divider", is_tab_stop |-> FALSE, has_focus |-> FALSE,
     label |-> <<>>, has_label |-> FALSE, value |-> None,
     x |-> 0, y |-> 0, w |-> 0, h |-> 0, offset |-> 0,
     draw_line |-> draw_line, required_height |-> height]

Divider_process_event(self, event) == [w |-> self, event |-> event]

Divider_required_height(self, offset, width) == self.required_height

(***************************************************************************)
(* CheckBox                                                                *)
(***************************************************************************)
CheckBox(text, label) ==
    [kind |-> "CheckBox", is_tab_stop |-> TRUE, has_focus |-> FALSE,
     label |-> label.label, has_label |-> label.has_label, value |-> None,
     x |-> 0, y |-> 0, w |-> 0, h |-> 0, offset |-> 0,
     text |-> text]

CheckBox_reset(self) == [self EXCEPT !.value = FALSE]

\* CheckBox_process_event ticking the box instead of toggling it
CheckBox_process_event_Tick(self, event) ==
    IF IsKeyboardEvent(event)
    THEN IF event.key_code \in {32, LF, CR}
         THEN [w |-> [self EXCEPT !.value = TRUE], event |-> None]
         ELSE [w |-> self, event |-> event]
    ELSE [w |-> self, event |-> event]

CheckBox_process_event(self, event) ==
    IF IsKeyboardEvent(event)
    THEN IF event.key_code \in {32, LF, CR}
         THEN [w |-> [self EXCEPT !.value = ~self.value], event |-> None]
         ELSE [w |-> self, event |-> event]
    ELSE [w |-> self, event |-> event]

CheckBox_required_height(self, offset, width) == 1

(***************************************************************************)
(* RadioButtons: options is a list of <<text, value>> pairs.               *)
(***************************************************************************)
RadioButtons(options, label) ==
    [kind |-> "RadioButtons", is_tab_stop |-> TRUE, has_focus |-> FALSE,
     label |-> label.label, has_label |-> label.has_label, value |-> None,
     x |-> 0, y |-> 0, w |-> 0, h |-> 0, offset |-> 0,
     options |-> options, selection |-> 0, start_column |-> 0]

RadioButtons_reset(self) ==
    [self EXCEPT !.selection = 0, !.value = Index(self.options, 0)]

\* RadioButtons_process_event going round from the last option to the first
\* and back
RadioButtons_process_event_Wrap(self, event) ==
    IF IsKeyboardEvent(event)
    THEN CASE event.key_code = KEY_UP ->
                LET selection == (self.selection - 1) % Len(self.options)
                IN  [w |-> [self EXCEPT
                              !.selection = selection,
                              !.value = Index(self.options, selection)],
                     event |-> None]
           [] event.key_code = KEY_DOWN ->
                LET selection == (self.selection + 1) % Len(self.options)
                IN  [w |-> [self EXCEPT
                              !.selection = selection,
                              !.value = Index(self.options, selection)],
                     event |-> None]
           [] OTHER -> [w |-> self, event |-> event]
    ELSE [w |-> self, event |-> event]

RadioButtons_process_event(self, event) ==
    IF IsKeyboardEvent(event)
    THEN CASE event.key_code = KEY_UP ->
                LET selection == Max(self.selection - 1, 0)
                IN  [w |-> [self EXCEPT
                              !.selection = selection,
                              !.value = Index(self.options, selection)],
                     event |-> None]
           [] event.key_code = KEY_DOWN ->
                LET selection == Min(self.selection + 1,
                                     Len(self.options) - 1)
                IN  [w |-> [self EXCEPT
                              !.selection = selection,
                              !.value = Index(self.options, selection)],
                     event |-> None]
           [] OTHER -> [w |-> self, event |-> event]
    ELSE [w |-> self, event |-> event]

RadioButtons_required_height(self, offset, width) == Len(self.options)

(***************************************************************************)
(* TextBox: value is the list of lines.                                    *)
(***************************************************************************)
TextBox(text, height, label) ==
    [kind |-> "TextBox", is_tab_stop |-> TRUE, has_focus |-> FALSE,
     label |-> label.label, has_label |-> label.has_label, value |-> None,
     x |-> 0, y |-> 0, w |-> 0, h |-> 0, offset |-> 0,
     text |-> text, line |-> 0, column |-> 0,
     start_line |-> 0, start_column |-> 0, required_height |-> height]

\* TextBox_update letting the cursor reach the right border of the box
TextBox_update_Border(self) ==
    LET width == self.w - self.offset
    IN  [self EXCEPT
           !.start_line =
               Max(0, Max(self.line - self.h + 3,
                          Min(self.start_line, self.line))),
           !.start_column =
               Max(0, Max(self.column - width + 2,
                          Min(self.start_column, self.column)))]

TextBox_update(self) ==
    LET width == self.w - self.offset
    IN  [self EXCEPT
           !.start_line =
               Max(0, Max(self.line - self.h + 3,
                          Min(self.start_line, self.line))),
           !.start_column =
               Max(0, Max(self.column - width + 3,
                          Min(self.start_column, self.column)))]

TextBox_reset(self) ==
    LET value == Split(self.text, LF)
        line == Len(value) - 1
    IN  [self EXCEPT !.value = value,
                     !.line = line,
                     !.column = Len(Index(value, line))]

\* the lines with line i replaced by s
SetLine(value, i, s) == [value EXCEPT ![Pos(value, i)] = s]

\* TextBoxSplit with the cursor keeping its column on the new line
TextBoxSplit_KeepColumn(self) ==
    [self EXCEPT
       !.value = SetLine(
           ListInsert(self.value, self.line + 1,
                      SliceFrom(Index(self.value, self.line), self.column)),
           self.line, SliceTo(Index(self.value, self.line), self.column)),
       !.line = self.line + 1]

\* the branch of CR and LF: split the line at the cursor
TextBoxSplit(self) ==
    [self EXCEPT
       !.value = SetLine(
           ListInsert(self.value, self.line + 1,
                      SliceFrom(Index(self.value, self.line), self.column)),
           self.line, SliceTo(Index(self.value, self.line), self.column)),
       !.line = self.line + 1,
       !.column = 0]

\* TextBoxJoin with the cursor put at the start of the joined line
TextBoxJoin_Home(self) ==
    [self EXCEPT
       !.line = self.line - 1,
       !.column = 0,
       !.value = ListRemove(
           SetLine(self.value, self.line - 1,
                   Index(self.value, self.line - 1)
                   \o Index(self.value, self.line)),
           self.line)]

\* the branch of KEY_BACK at column 0 below the first line: join this line
\* with the previous one
TextBoxJoin(self) ==
    [self EXCEPT
       !.line = self.line - 1,
       !.column = Len(Index(self.value, self.line - 1)),
       !.value = ListRemove(
           SetLine(self.value, self.line - 1,
                   Index(self.value, self.line - 1)
                   \o Index(self.value, self.line)),
           self.line)]

\* TextBoxMoveTo keeping the column whatever the length of the line
TextBoxMoveTo_KeepColumn(self, l) == [self EXCEPT !.line = l]

\* KEY_UP and KEY_DOWN once the line l to go to is known: the cursor on
\* line l, the column cut to the length of that line
TextBoxMoveTo(self, l) ==
    [self EXCEPT !.line = l,
                 !.column = IF self.column >= Len(Index(self.value, l))
                            THEN Len(Index(self.value, l))
                            ELSE self.column]

\* TextBoxLeft not stopping at the start of the text
TextBoxLeft_NoStop(self) ==
    IF self.column - 1 < 0 /\ self.line > 0
    THEN [self EXCEPT !.line = self.line - 1,
                      !.column = Len(Index(self.value, self.line - 1))]
    ELSE [self EXCEPT !.column = self.column - 1]

\* KEY_LEFT: one character to the left, to the end of the line before from
\* the start of a line
TextBoxLeft(self) ==
    IF self.column - 1 < 0
    THEN IF self.line > 0
         THEN [self EXCEPT !.line = self.line - 1,
                           !.column = Len(Index(self.value, self.line - 1))]
         ELSE [self EXCEPT !.column = 0]
    ELSE [self EXCEPT !.column = self.column - 1]

TextBox_process_event(self, event) ==
    IF IsKeyboardEvent(event)
    THEN LET value == self.value
             line == self.line
             column == self.column
             cur == Index(value, line)
         IN
         CASE event.key_code \in {LF, CR} ->
                [w |-> TextBoxSplit(self), event |-> None]
           [] event.key_code = KEY_BACK ->
                [w |-> IF column > 0
                       THEN [self EXCEPT
                               !.value = SetLine(value, line,
                                   SliceTo(cur, column - 1)
                                   \o SliceFrom(cur, column)),
                               !.column = column - 1]
                       ELSE IF line > 0 THEN TextBoxJoin(self)
                       ELSE self,
                 event |-> None]
           [] event.key_code = KEY_UP ->
                [w |-> TextBoxMoveTo(self, Max(0, line - 1)), event |-> None]
           [] event.key_code = KEY_DOWN ->
                [w |-> TextBoxMoveTo(self, Min(Len(value) - 1, line + 1)),
                 event |-> None]
           [] event.key_code = KEY_LEFT ->
                [w |-> TextBoxLeft(self), event |-> None]
           [] event.key_code = KEY_RIGHT ->
                [w |-> IF column + 1 > Len(cur)
                       THEN IF line < Len(value) - 1
                            THEN [self EXCEPT !.line = line + 1,
                                              !.column = 0]
                            ELSE [self EXCEPT !.column = Len(cur)]
                       ELSE [self EXCEPT !.column = column + 1],
                 event |-> None]
           [] event.key_code = KEY_HOME ->
                [w |-> [self EXCEPT !.column = 0], event |-> None]
           [] event.key_code = KEY_END ->
                [w |-> [self EXCEPT !.column = Len(cur)], event |-> None]
           [] 32 <= event.key_code /\ event.key_code < 256 ->
                [w |-> [self EXCEPT
                          !.value = SetLine(value, line,
                              SliceTo(cur, column) \o <<event.key_code>>
                              \o SliceFrom(cur, column)),
                          !.column = column + 1],
                 event |-> None]
           [] OTHER -> [w |-> self, event |-> event]
    ELSE [w |-> self, event |-> event]

TextBox_required_height(self, offset, width) == self.required_height + 2

(***************************************************************************)
(* The abstract methods of Widget, dispatched on the widget's class.       *)
(***************************************************************************)
Widget_reset(self) ==
    CASE self.kind = "Text" -> Text_reset(self)
      [] self.kind = "CheckBox" -> CheckBox_reset(self)
      [] self.kind = "RadioButtons" -> RadioButtons_reset(self)
      [] self.kind = "TextBox" -> TextBox_reset(self)
      [] OTHER -> self

Widget_process_event(self, event) ==
    CASE self.kind = "Text" -> Text_process_event(self, event)
      [] self.kind = "CheckBox" -> CheckBox_process_event(self, event)
      [] self.kind = "RadioButtons" -> RadioButtons_process_event(self, event)
      [] self.kind = "TextBox" -> TextBox_process_event(self, event)
      [] self.kind = "Label" -> Label_process_event(self, event)
      [] OTHER -> Divider_process_event(self, event)

Widget_update(self) ==
    CASE self.kind = "Text" -> Text_update(self)
      [] self.kind = "TextBox" -> TextBox_update(self)
      [] OTHER -> self

Widget_required_height(self, offset, width) ==
    CASE self.kind = "Text" -> Text_required_height(self, offset, width)
      [] self.kind = "CheckBox" -> CheckBox_required_height(self, offset, width)
      [] self.kind = "RadioButtons" ->
            RadioButtons_required_height(self, offset, width)
      [] self.kind = "TextBox" -> TextBox_required_height(self, offset, width)
      [] self.kind = "Label" -> Label_required_height(self, offset, width)
      [] OTHER -> Divider_required_height(self, offset, width)

(***************************************************************************)
(* Layout                                                                  *)
(*                                                                         *)
(* column_sizes[i] is the fraction x / total_size, kept as the pair        *)
(* <<x, total_size>>.                                                      *)
(***************************************************************************)
RECURSIVE Sum(_)
Sum(s) == IF s = <<>> THEN 0 ELSE Head(s) + Sum(Tail(s))

Layout(columns) ==
    LET total_size == Sum(columns)
    IN  [column_sizes |-> [i \in 1..Len(columns) |-> <<columns[i], total_size>>],
         columns |-> [i \in 1..Len(columns) |-> <<>>],
         has_focus |-> FALSE,
         live_col |-> 0,
         live_widget |-> -1]

\* Layout.__init__ raises ZeroDivisionError: x / total_size is evaluated for
\* each column, so for no column at all nothing is divided
Layout_raises(columns) == Len(columns) > 0 /\ Sum(columns) = 0

\* Layout.add_widget raises IndexError: self._columns[column] does not exist
Layout_add_widget_raises(self, column) == ~HasIndex(self.columns, column)

\* Layout.add_widget for a column that exists
Layout_add_widget(self, widget, column) ==
    [self EXCEPT !.columns[Pos(self.columns, column)] = Append(@, widget)]

\* whether self._columns[self._live_col][self._live_widget] exists
HasLiveWidget(self) ==
    /\ HasIndex(self.columns, self.live_col)
    /\ HasIndex(Index(self.columns, self.live_col), self.live_widget)

\* self._columns[self._live_col][self._live_widget]
LiveWidget(self) == Index(Index(self.columns, self.live_col), self.live_widget)

\* the Layout with that widget replaced by w
SetLiveWidget(self, w) ==
    [self EXCEPT !.columns[Pos(self.columns, self.live_col)]
                          [Pos(Index(self.columns, self.live_col),
                               self.live_widget)] = w]

(***************************************************************************)
(* The arithmetic of Layout.fix.  A column size is the double x / total,   *)
(* kept here as <<x, total>>; the width of a column is that double times   *)
(* the canvas width, as a double, cut to an int.  Both roundings are       *)
(* computed in integers, for weights x >= 0 that sum to total > 0.         *)
(***************************************************************************)
\* the bits a double stores of its mantissa
MantissaBits == 52

RECURSIVE Pow2(_)
Pow2(e) == IF e = 0 THEN 1 ELSE 2 * Pow2(e - 1)

RECURSIVE Pow2Mod(_, _)
\* 2^e modulo m
Pow2Mod(e, m) == IF e = 0 THEN 1 % m ELSE (2 * Pow2Mod(e - 1, m)) % m

RECURSIVE Halvings(_, _, _)
\* the least j >= 1 with x * 2^j >= total: 2^-j <= x / total < 2^(1-j)
Halvings(x, total, j) ==
    IF x * Pow2(j) >= total THEN j ELSE Halvings(x, total, j + 1)

\* x / total for 0 < x < total: the double is the quotient rounded to
\* MantissaBits + 1 bits, and falls short of the quotient by
\* DivShort / (total * 2^(MantissaBits + j)); 0 if it is exact or above
DivShort(x, total) ==
    LET r == (x * Pow2Mod(MantissaBits + Halvings(x, total, 1), total)) % total
    IN  IF 2 * r < total THEN r ELSE 0

RECURSIVE ExponentBelow(_, _)
\* the greatest e >= -1 with 2^e < n: the exponent of the doubles just
\* below the integer n >= 1
ExponentBelow(n, e) ==
    IF Pow2(e + 1) < n THEN ExponentBelow(n, e + 1) ELSE e

\* canvas_width * (x / total), where the exact product is the integer n:
\* the double product is below n when the shortfall of x / total, times
\* canvas_width, is more than half the gap between n and the double below
FallsShort(canvas_width, x, total) ==
    2 * canvas_width * DivShort(x, total) >
        total * Pow2(ExponentBelow((canvas_width * x) \div total, -1)
                     + Halvings(x, total, 1))

\* int(canvas_width * size) for a fraction size = <<x, total>>
ScaleWidth(canvas_width, size) ==
    LET x == size[1]
        total == size[2]
    IN  IF x = 0 \/ canvas_width = 0 THEN 0
        ELSE IF x = total THEN canvas_width
        ELSE IF (canvas_width * x) % total /= 0
        THEN (canvas_width * x) \div total
        ELSE IF FallsShort(canvas_width, x, total)
        THEN (canvas_width * x) \div total - 1
        ELSE (canvas_width * x) \div total

\* ScaleThird allowing the labels half of the column
ScaleThird_Half(canvas_width, size) == ScaleWidth(canvas_width, size) \div 2

\* canvas_width * size // 3: the floor of a third of the double product
ScaleThird(canvas_width, size) == ScaleWidth(canvas_width, size) \div 3

RECURSIVE MaxLabel(_)
\* max([0 if w.label is None else len(w.label) + 1 for w in column])
MaxLabel(column) ==
    IF column = <<>> THEN 0
    ELSE Max(IF Head(column).has_label THEN Len(Head(column).label) + 1 ELSE 0,
             MaxLabel(Tail(column)))

RECURSIVE FixColumn(_, _, _, _, _)
\* the inner loop of Layout.fix: the widgets of a column stacked from y
FixColumn(column, x, y, offset, w) ==
    IF column = <<>> THEN [column |-> <<>>, y |-> y]
    ELSE LET widget == Head(column)
             h == Widget_required_height(widget, offset, w)
             rest == FixColumn(Tail(column), x, y + h, offset, w)
         IN  [column |-> <<Widget_set_layout(widget, x, y, offset, w, h)>>
                         \o rest.column,
              y |-> rest.y]

RECURSIVE FixColumns(_, _, _, _, _, _)
\* the outer loop of Layout.fix from column i (1-based) on
FixColumns(self, canvas, i, x, start_y, max_y) ==
    IF i > Len(self.columns) THEN [layout |-> self, max_y |-> max_y]
    ELSE LET column == self.columns[i]
             offset == Min(IF Len(column) > 0 THEN MaxLabel(column) ELSE 0,
                           ScaleThird(canvas.width, self.column_sizes[i]))
             w == ScaleWidth(canvas.width, self.column_sizes[i])
             fixed == FixColumn(column, x, start_y, offset, w)
         IN  FixColumns([self EXCEPT !.columns[i] = fixed.column], canvas,
                        i + 1, x + w, start_y, Max(max_y, fixed.y))

Layout_fix(self, canvas, start_y) ==
    FixColumns(self, canvas, 1, 0, start_y, start_y)

\* ScanColumn with the skipping of widgets that are no tab stop left out
ScanColumn_NoSkip(column, i, direction) == i

\* the inner while loop of _find_next_widget: the first index from i on,
\* stepping by direction, that is a tab stop or outside the column
RECURSIVE ScanColumn(_, _, _)
ScanColumn(column, i, direction) ==
    IF 0 <= i /\ i < Len(column) /\ ~column[i + 1].is_tab_stop
    THEN ScanColumn(column, i + direction, direction)
    ELSE i

RECURSIVE FindLoop(_, _, _, _, _, _)
\* the outer while loop of _find_next_widget
FindLoop(columns, live_col, live_widget, direction, stay_in_col, current_widget) ==
    IF ~(0 <= live_col /\ live_col < Len(columns))
    THEN [live_col |-> live_col, live_widget |-> live_widget]
    ELSE LET column == columns[live_col + 1]
             i == ScanColumn(column, live_widget + direction, direction)
         IN  IF 0 <= i /\ i < Len(column) /\ column[i + 1].is_tab_stop
             THEN [live_col |-> live_col, live_widget |-> i]
             ELSE IF stay_in_col
             THEN [live_col |-> live_col, live_widget |-> current_widget]
             ELSE FindLoop(columns, live_col + direction,
                           IF direction > 0 THEN -1
                           ELSE Len(Index(columns, live_col + direction)),
                           direction, stay_in_col, current_widget)

Layout_find_next_widget(self, direction, stay_in_col) ==
    LET found == FindLoop(self.columns, self.live_col, self.live_widget,
                          direction, stay_in_col, self.live_widget)
    IN  [self EXCEPT !.live_col = found.live_col,
                     !.live_widget = found.live_widget]

\* self._columns[self._live_col][self._live_widget].focus(), which raises
\* IndexError when there is no such widget
FocusLiveWidget(self, canvas) ==
    IF HasLiveWidget(self)
    THEN [layout |-> SetLiveWidget(self,
                                   Widget_focus(LiveWidget(self), canvas).w),
          canvas |-> Widget_focus(LiveWidget(self), canvas).canvas,
          raised |-> FALSE]
    ELSE [layout |-> self, canvas |-> canvas, raised |-> TRUE]

\* self._columns[self._live_col][self._live_widget].blur()
BlurLiveWidget(self) ==
    IF HasLiveWidget(self)
    THEN [layout |-> SetLiveWidget(self, Widget_blur(LiveWidget(self))),
          raised |-> FALSE]
    ELSE [layout |-> self, raised |-> TRUE]

Layout_focus(self, canvas, force_first, force_last) ==
    LET focused == [self EXCEPT !.has_focus = TRUE]
    IN  IF force_first
        THEN FocusLiveWidget(
                 Layout_find_next_widget(
                     [focused EXCEPT !.live_col = 0, !.live_widget = -1],
                     1, FALSE),
                 canvas)
        ELSE IF force_last
        THEN IF HasIndex(self.columns, Len(self.columns) - 1)
             THEN FocusLiveWidget(
                      Layout_find_next_widget(
                          [focused EXCEPT
                              !.live_col = Len(self.columns) - 1,
                              !.live_widget =
                                  Len(Index(self.columns,
                                            Len(self.columns) - 1))],
                          -1, FALSE),
                      canvas)
             ELSE [layout |-> [focused EXCEPT
                                  !.live_col = Len(self.columns) - 1],
                   canvas |-> canvas, raised |-> TRUE]
        ELSE FocusLiveWidget(focused, canvas)

Layout_blur(self) == BlurLiveWidget([self EXCEPT !.has_focus = FALSE])

\* the branches of Layout.process_event for an event the widget refused

\* the Layout keeps the focus: f is what focusing the widget under the cursor
\* left, and the event is consumed
Consumed(f) ==
    [layout |-> f.layout, canvas |-> f.canvas, event |-> None,
     raised |-> f.raised]

\* KEY_TAB, once the widget is blurred and the next one found
LayoutTabFound(next, canvas, event) ==
    IF next.live_col >= Len(next.columns)
    THEN [layout |-> Layout_find_next_widget(
                         [next EXCEPT !.live_col = 0, !.live_widget = -1],
                         1, FALSE),
          canvas |-> canvas, event |-> event, raised |-> FALSE]
    ELSE Consumed(FocusLiveWidget(next, canvas))

\* LayoutTab leaving the widget it comes from focused
LayoutTab_NoBlur(self, canvas, event) ==
    LayoutTabFound(Layout_find_next_widget(self, 1, FALSE), canvas, event)

\* KEY_TAB
LayoutTab(self, canvas, event) ==
    LayoutTabFound(
        Layout_find_next_widget(BlurLiveWidget(self).layout, 1, FALSE),
        canvas, event)

\* KEY_BACK_TAB, once the widget is blurred and the previous one found
LayoutBackTabFound(next, canvas, event) ==
    IF next.live_col < 0
    THEN [layout |-> Layout_find_next_widget(
                         [next EXCEPT
                             !.live_col = Len(next.columns) - 1,
                             !.live_widget =
                                 Len(Index(next.columns,
                                           Len(next.columns) - 1))],
                         -1, FALSE),
          canvas |-> canvas, event |-> event, raised |-> FALSE]
    ELSE Consumed(FocusLiveWidget(next, canvas))

\* KEY_BACK_TAB
LayoutBackTab(self, canvas, event) ==
    LayoutBackTabFound(
        Layout_find_next_widget(BlurLiveWidget(self).layout, -1, FALSE),
        canvas, event)

\* KEY_DOWN (direction 1) and KEY_UP (direction -1)
LayoutUpDown(self, canvas, direction) ==
    Consumed(FocusLiveWidget(
                 Layout_find_next_widget(BlurLiveWidget(self).layout,
                                         direction, TRUE),
                 canvas))

\* Layout.process_event once the widget has had the first refusal: self is
\* the Layout it left, event what it returned
LayoutKeys(self, canvas, event) ==
    IF event /= None /\ IsKeyboardEvent(event)
    THEN CASE event.key_code = KEY_TAB -> LayoutTab(self, canvas, event)
           [] event.key_code = KEY_BACK_TAB -> LayoutBackTab(self, canvas, event)
           [] event.key_code = KEY_DOWN -> LayoutUpDown(self, canvas, 1)
           [] event.key_code = KEY_UP -> LayoutUpDown(self, canvas, -1)
           [] OTHER -> [layout |-> self, canvas |-> canvas,
                        event |-> event, raised |-> FALSE]
    ELSE [layout |-> self, canvas |-> canvas, event |-> event,
          raised |-> FALSE]

\* the widget under the cursor replaced by r.w, then the keys of the Layout
LayoutAfterWidget(self, canvas, r) ==
    LayoutKeys(SetLiveWidget(self, r.w), canvas, r.event)

\* Layout_process_event keeping the keys from the widget under the cursor
Layout_process_event_Unoffered(self, canvas, event) ==
    IF ~HasLiveWidget(self)
    THEN [layout |-> self, canvas |-> canvas, event |-> event, raised |-> TRUE]
    ELSE LayoutKeys(self, canvas, event)

Layout_process_event(self, canvas, event) ==
    IF ~HasLiveWidget(self)
    THEN [layout |-> self, canvas |-> canvas, event |-> event, raised |-> TRUE]
    ELSE LayoutAfterWidget(self, canvas,
                           Widget_process_event(LiveWidget(self), event))

Layout_update(self) ==
    [self EXCEPT !.columns =
        [c \in 1..Len(self.columns) |->
            [i \in 1..Len(self.columns[c]) |->
                Widget_update(self.columns[c][i])]]]

Layout_reset(self) ==
    Layout_find_next_widget(
        [self EXCEPT
            !.columns =
                [c \in 1..Len(self.columns) |->
                    [i \in 1..Len(self.columns[c]) |->
                        Widget_reset(self.columns[c][i])]],
            !.live_widget = -1],
        1, FALSE)

(***************************************************************************)
(* Frame: the record of its fields, with `raised` set once a call raised.  *)
(***************************************************************************)
Frame(height, width) ==
    [focus |-> 0, layouts |-> <<>>, canvas |-> Canvas(height, width),
     raised |-> FALSE]

Frame_add_layout(self, layout) ==
    [self EXCEPT !.layouts = Append(@, layout)]

RECURSIVE FixLayouts(_, _, _, _)
\* the loop of Frame.fix from layout i (1-based) on
FixLayouts(layouts, canvas, i, y) ==
    IF i > Len(layouts) THEN layouts
    ELSE LET fixed == Layout_fix(layouts[i], canvas, y)
         IN  FixLayouts([layouts EXCEPT ![i] = fixed.layout], canvas,
                        i + 1, fixed.max_y)

\* self._layouts[self._focus].focus(...), which raises IndexError when
\* there is no such Layout
\* the Frame once a call on self._layouts[self._focus] left r: the Layout,
\* the canvas and whether it raised
WithLayout(self, r) ==
    [self EXCEPT !.layouts[Pos(self.layouts, self.focus)] = r.layout,
                 !.canvas = r.canvas,
                 !.raised = r.raised]

FocusLayout(self, force_first, force_last) ==
    IF HasIndex(self.layouts, self.focus)
    THEN WithLayout(self,
                    Layout_focus(Index(self.layouts, self.focus), self.canvas,
                                 force_first, force_last))
    ELSE [self EXCEPT !.raised = TRUE]

\* Frame_fix starting the first Layout at row 1
Frame_fix_FromOne(self) ==
    FocusLayout([self EXCEPT
                    !.layouts = FixLayouts(self.layouts, self.canvas, 1, 1)],
                TRUE, FALSE)

Frame_fix(self) ==
    FocusLayout([self EXCEPT
                    !.layouts = FixLayouts(self.layouts, self.canvas, 1, 0)],
                TRUE, FALSE)

Frame_update(self) ==
    [self EXCEPT !.layouts =
        [i \in 1..Len(self.layouts) |-> Layout_update(self.layouts[i])]]

Frame_reset(self) ==
    [self EXCEPT
        !.canvas = Canvas_reset(self.canvas),
        !.layouts =
            [i \in 1..Len(self.layouts) |-> Layout_reset(self.layouts[i])]]

\* self._layouts[self._focus].blur()
BlurLayout(self) ==
    [self EXCEPT
        !.layouts[Pos(self.layouts, self.focus)] =
            Layout_blur(Index(self.layouts, self.focus)).layout,
        !.raised = Layout_blur(Index(self.layouts, self.focus)).raised]

\* FrameTabBlurred without the wrap from the last Layout to Layout 0
FrameTabBlurred_NoWrap(self) ==
    IF self.raised THEN self
    ELSE FocusLayout([self EXCEPT !.focus = self.focus + 1], TRUE, FALSE)

\* the KEY_TAB branch of Frame.process_event, once the Layout is blurred
FrameTabBlurred(self) ==
    IF self.raised THEN self
    ELSE FocusLayout([self EXCEPT
                         !.focus = IF self.focus + 1 >= Len(self.layouts)
                                   THEN 0 ELSE self.focus + 1],
                     TRUE, FALSE)

\* the KEY_TAB branch of Frame.process_event
FrameTab(self) == FrameTabBlurred(BlurLayout(self))

\* FrameBackTabBlurred focusing the first widget of the previous Layout,
\* not the last
FrameBackTabBlurred_First(self) ==
    IF self.raised THEN self
    ELSE FocusLayout([self EXCEPT
                         !.focus = IF self.focus - 1 < 0
                                   THEN Len(self.layouts) - 1
                                   ELSE self.focus - 1],
                     TRUE, FALSE)

\* the KEY_BACK_TAB branch of Frame.process_event, once the Layout is blurred
FrameBackTabBlurred(self) ==
    IF self.raised THEN self
    ELSE FocusLayout([self EXCEPT
                         !.focus = IF self.focus - 1 < 0
                                   THEN Len(self.layouts) - 1
                                   ELSE self.focus - 1],
                     FALSE, TRUE)

\* the KEY_BACK_TAB branch of Frame.process_event
FrameBackTab(self) == FrameBackTabBlurred(BlurLayout(self))

\* Frame.process_event once the Layout has had the first refusal: self is
\* the Frame it left, event what it returned
FrameKeys(self, event) ==
    IF self.raised THEN [frame |-> self, event |-> event]
    ELSE IF event /= None /\ IsKeyboardEvent(event)
    THEN CASE event.key_code = KEY_TAB ->
                [frame |-> FrameTab(self), event |-> None]
           [] event.key_code = KEY_BACK_TAB ->
                [frame |-> FrameBackTab(self), event |-> None]
           [] OTHER -> [frame |-> self, event |-> event]
    ELSE [frame |-> self, event |-> event]

\* the Layout's result r taken into the Frame, then the keys of the Frame
FrameAfterLayout(self, r) == FrameKeys(WithLayout(self, r), r.event)

\* Frame.process_event: the Frame it leaves and the event it returns
Frame_process_event(self, event) ==
    IF ~HasIndex(self.layouts, self.focus)
    THEN [frame |-> [self EXCEPT !.raised = TRUE], event |-> event]
    ELSE FrameAfterLayout(self,
                          Layout_process_event(Index(self.layouts, self.focus),
                                               self.canvas, event))

(***************************************************************************)
(* The Frames the model is run on.                                         *)
(***************************************************************************)
\* Canvas(CanvasHeight, CanvasWidth) backs every Frame of the model
CanvasHeight == 4

CanvasWidth == 20

RECURSIVE AddWidgets(_, _, _)
\* layout.add_widget(w, column) for each w of widgets, in order
AddWidgets(layout, widgets, column) ==
    IF widgets = <<>> THEN layout
    ELSE AddWidgets(Layout_add_widget(layout, Head(widgets), column),
                    Tail(widgets), column)

RECURSIVE AddColumns(_, _, _)
\* the widgets of contents[i] added to column i - 1, for each i from i on
AddColumns(layout, contents, i) ==
    IF i > Len(contents) THEN layout
    ELSE AddColumns(AddWidgets(layout, contents[i], i - 1), contents, i + 1)

\* a Layout built from its column weights and the widgets of each column
BuildLayout(columns, contents) == AddColumns(Layout(columns), contents, 1)

RECURSIVE AddLayouts(_, _)
AddLayouts(frame, layouts) ==
    IF layouts = <<>> THEN frame
    ELSE AddLayouts(Frame_add_layout(frame, Head(layouts)), Tail(layouts))

BuildFrame(layouts) ==
    AddLayouts(Frame(CanvasHeight, CanvasWidth), layouts)

\* "hi", "a\nb" and the labels "n", "A", "B"
StrHi == <<104, 105>>

StrAB == <<97, LF, 98>>

TwoOptions == << <<<<65>>, 1>>, <<<<66>>, 2>> >>

\* one Text
LayoutText == BuildLayout(<<1>>, << <<Text(StrHi, NoLabel)>> >>)

\* a CheckBox above RadioButtons
LayoutCheckRadio ==
    BuildLayout(<<1>>, << <<CheckBox(<<65>>, NoLabel),
                            RadioButtons(TwoOptions, WithLabel(<<110>>))>> >>)

\* two columns, each with a widget that is no tab stop
LayoutTwoColumns ==
    BuildLayout(<<1, 3>>,
                << <<Label(<<65>>), Text(<<>>, WithLabel(<<110>>))>>,
                   <<TextBox(StrAB, 1, NoLabel), Divider(TRUE, 1)>> >>)

\* an empty first column, three tab stops around a Divider in the second
LayoutThree ==
    BuildLayout(<<1, 1>>,
                << <<>>,
                   <<CheckBox(<<65>>, NoLabel), Divider(FALSE, 1),
                     Text(<<>>, NoLabel), CheckBox(<<66>>, NoLabel)>> >>)

\* no tab stop at all
LayoutNoTabStop ==
    BuildLayout(<<1>>, << <<Label(<<65>>), Divider(TRUE, 1)>> >>)

\* a tab stop in each of two columns, and an empty last column
LayoutSideBySide ==
    BuildLayout(<<1, 1, 2>>,
                << <<CheckBox(<<65>>, NoLabel)>>,
                   <<Label(<<66>>), CheckBox(<<66>>, NoLabel)>>,
                   <<>> >>)

\* two columns and no widget
LayoutEmpty == BuildLayout(<<1, 1>>, << <<>>, <<>> >>)

LayoutShapes ==
    {LayoutText, LayoutCheckRadio, LayoutTwoColumns, LayoutThree,
     LayoutNoTabStop, LayoutSideBySide}

\* every Frame of one or two of these Layouts, and some of three
Frames ==
    {BuildFrame(<<a>>) : a \in LayoutShapes}
    \cup {BuildFrame(<<a, b>>) : a \in LayoutShapes, b \in LayoutShapes}
    \cup {BuildFrame(<<LayoutText, LayoutCheckRadio, LayoutSideBySide>>),
          BuildFrame(<<LayoutText, LayoutNoTabStop, LayoutCheckRadio>>),
          BuildFrame(<<LayoutText, LayoutEmpty, LayoutCheckRadio>>),
          BuildFrame(<<LayoutThree, LayoutTwoColumns, LayoutText>>)}

\* the events sent to a Frame
FrameEvents ==
    {KeyboardEvent(k) : k \in {KEY_TAB, KEY_BACK_TAB, KEY_UP, KEY_DOWN,
                               KEY_ESCAPE, 32}}
    \cup {MouseEvent}

(***************************************************************************)
(* State.  focus, layouts, canvas: the fields of the Frame.  raised: a     *)
(* call raised an exception.  pc: "new" after construction, "fixed" after  *)
(* Frame.fix, "ready" once Frame.reset has run.  op, event, ret: the last  *)
(* call, the event it was given, what it returned.  widget: the widget of  *)
(* the stand-alone widget specifications.                                  *)
(***************************************************************************)
VARIABLES focus, layouts, canvas, raised, pc, op, event, ret, widget

vars == <<focus, layouts, canvas, raised, pc, op, event, ret, widget>>

Self == [focus |-> focus, layouts |-> layouts, canvas |-> canvas,
         raised |-> raised]

\* what `ret` holds after a call that raised
Raised == [type |-> "Raised", key_code |-> 0]

\* the Frame's fields become those of f
Becomes(f) ==
    /\ focus' = f.focus
    /\ layouts' = f.layouts
    /\ canvas' = f.canvas
    /\ raised' = f.raised

\* a character may still be typed into the widget that is offered the event
RoomToType(f) ==
    LET l == Index(f.layouts, f.focus)
    IN  HasLiveWidget(l) =>
          LET w == LiveWidget(l)
          IN  /\ w.kind = "Text" => Len(w.value) < MaxTyped
              /\ w.kind = "TextBox" => Len(Index(w.value, w.line)) < MaxTyped

\* a call left r.frame and returned r.event
Returns(r) ==
    /\ Becomes(r.frame)
    /\ ret' = IF r.frame.raised THEN Raised ELSE r.event

Init ==
    /\ \E f \in Frames : /\ focus = f.focus
                         /\ layouts = f.layouts
                         /\ canvas = f.canvas
                         /\ raised = f.raised
    /\ pc = "new"
    /\ op = "init"
    /\ event = None
    /\ ret = None
    /\ widget = None

\* Frame.fix(), called once after construction
Fix ==
    /\ pc = "new"
    /\ ~raised
    /\ Becomes(Frame_fix(Self))
    /\ pc' = "fixed"
    /\ op' = "fix"
    /\ event' = None
    /\ ret' = IF Frame_fix(Self).raised THEN Raised ELSE None
    /\ UNCHANGED widget

\* Frame.reset(): first when the Frame is attached, then on demand
Reset ==
    /\ pc \in {"fixed", "ready"}
    /\ ~raised
    /\ Becomes(Frame_reset(Self))
    /\ pc' = "ready"
    /\ op' = "reset"
    /\ event' = None
    /\ ret' = None
    /\ UNCHANGED widget

\* Frame.process_event(e)
ProcessEvent ==
    /\ pc = "ready"
    /\ ~raised
    /\ \E e \in FrameEvents :
          /\ (IsKeyboardEvent(e) /\ e.key_code >= 32) => RoomToType(Self)
          /\ Returns(Frame_process_event(Self, e))
          /\ event' = e
    /\ op' = "process_event"
    /\ UNCHANGED <<pc, widget>>

\* Frame._update(frame_no)
Update ==
    /\ pc = "ready"
    /\ ~raised
    /\ Becomes(Frame_update(Self))
    /\ op' = "update"
    /\ event' = None
    /\ ret' = None
    /\ UNCHANGED <<pc, widget>>

Next == Fix \/ Reset \/ ProcessEvent \/ Update

Spec == Init /\ [][Next]_vars

(***************************************************************************)
(* Vocabulary of the claims about focus.  A position <<l, c, i>> names     *)
(* widget i of column c of Layout l, all counted from 0.                   *)
(***************************************************************************)
Positions(f) ==
    UNION {UNION {{<<l - 1, c - 1, i - 1>> :
                      i \in 1..Len(f.layouts[l].columns[c])} :
                  c \in 1..Len(f.layouts[l].columns)} :
           l \in 1..Len(f.layouts)}

WidgetAt(f, p) == f.layouts[p[1] + 1].columns[p[2] + 1][p[3] + 1]

TabStops(f) == {p \in Positions(f) : WidgetAt(f, p).is_tab_stop}

FocusedWidgets(f) == {p \in Positions(f) : WidgetAt(f, p).has_focus}

FocusedLayouts(f) == {l \in 1..Len(f.layouts) : f.layouts[l].has_focus}

EveryLayoutHasTabStop(f) ==
    \A l \in 1..Len(f.layouts) : \E p \in TabStops(f) : p[1] = l - 1

\* the position under the cursor of the Layout that has the Frame's focus
Cursor(f) ==
    <<f.focus, f.layouts[f.focus + 1].live_col,
      f.layouts[f.focus + 1].live_widget>>

\* the Frame has a focused widget: the has_focus flags name exactly the
\* widget under the cursor of the focused Layout, a tab stop
HasFocusedWidget(f) ==
    /\ Cursor(f) \in TabStops(f)
    /\ FocusedWidgets(f) = {Cursor(f)}

\* where the focus is: the focused Layout, its cursor, the has_focus flags
FocusView(f) ==
    [focus |-> f.focus, cursor |-> Cursor(f),
     widgets |-> FocusedWidgets(f), layouts |-> FocusedLayouts(f)]

\* declared order: Layouts, then columns, then widgets top to bottom
Before(p, q) ==
    \/ p[1] < q[1]
    \/ p[1] = q[1] /\ p[2] < q[2]
    \/ p[1] = q[1] /\ p[2] = q[2] /\ p[3] < q[3]

First(S) == CHOOSE p \in S : \A q \in S : q = p \/ Before(p, q)

\* the tab stop a TAB at position p is to reach, if there is one
NextTabStop(f, p) ==
    LET later == {q \in TabStops(f) : q[1] = p[1] /\ Before(p, q)}
        l == IF p[1] + 1 >= Len(f.layouts) THEN 0 ELSE p[1] + 1
        there == {q \in TabStops(f) : q[1] = l}
    IN  IF later /= {} THEN {First(later)}
        ELSE IF there /= {} THEN {First(there)}
        ELSE {}

Tab == KeyboardEvent(KEY_TAB)

BackTab == KeyboardEvent(KEY_BACK_TAB)

RECURSIVE Sent(_, _, _)
\* the Frame after e was sent to Frame.process_event n times
Sent(f, e, n) ==
    IF n = 0 THEN f ELSE Sent(Frame_process_event(f, e).frame, e, n - 1)

\* the classes of the widgets of a Frame, Layout by Layout
Classes(f) ==
    [l \in 1..Len(f.layouts) |->
        [c \in 1..Len(f.layouts[l].columns) |->
            [i \in 1..Len(f.layouts[l].columns[c]) |->
                f.layouts[l].columns[c][i].kind]]]

Fixed == pc \in {"fixed", "ready"} /\ ~raised

\* C1: in a fixed Frame whose every Layout has a tab stop, from every state
\* with a focused widget, as many TABs as the Frame has tab stops bring the
\* focus (focused Layout, cursor, has_focus flags) back to where it was.
C1_TabClosure ==
    (Fixed /\ EveryLayoutHasTabStop(Self) /\ HasFocusedWidget(Self))
    => LET after == Sent(Self, Tab, Cardinality(TabStops(Self)))
       IN  ~after.raised /\ FocusView(after) = FocusView(Self)

\* a TAB just moved the focus into the last of three Layouts, in a Frame of
\* five tab stops or more
C1_Witness ==
    /\ Fixed /\ EveryLayoutHasTabStop(Self) /\ HasFocusedWidget(Self)
    /\ op = "process_event" /\ event = Tab /\ ret = None
    /\ Len(layouts) = 3 /\ focus = 2
    /\ Cardinality(TabStops(Self)) >= 5

\* C2: from every state with a focused widget A (every Layout having a tab
\* stop), a TAB followed by a BACK_TAB restores the focus to A.
C2_TabBackTab ==
    (Fixed /\ EveryLayoutHasTabStop(Self) /\ HasFocusedWidget(Self))
    => LET after == Sent(Sent(Self, Tab, 1), BackTab, 1)
       IN  ~after.raised /\ FocusView(after) = FocusView(Self)

\* A is the last tab stop of the last of several Layouts, so that the TAB
\* wraps to Layout 0, and the Frame was just sent a BACK_TAB
C2_Witness ==
    /\ Fixed /\ EveryLayoutHasTabStop(Self) /\ HasFocusedWidget(Self)
    /\ op = "process_event" /\ event = BackTab /\ ret = None
    /\ Len(layouts) > 1 /\ focus = Len(layouts) - 1
    /\ Sent(Self, Tab, 1).focus = 0

\* one step of C3: the cursor was on a tab stop and the Frame was sent TAB
C3_Step ==
    (/\ pc = "ready" /\ op' = "process_event" /\ event' = Tab
     /\ Cursor(Self) \in TabStops(Self)
     /\ NextTabStop(Self, Cursor(Self)) /= {})
    => /\ ~raised'
       /\ ret' = None
       /\ Cursor(Self') \in NextTabStop(Self, Cursor(Self))
       /\ WidgetAt(Self', Cursor(Self')).has_focus
       /\ Cursor(Self') /= Cursor(Self)
             => ~WidgetAt(Self', Cursor(Self)).has_focus

\* the scenario of C3: Layout 0 = [Text], Layout 1 = [CheckBox, RadioButtons]
C3_Scenario ==
    (/\ Fixed
     /\ Classes(Self) = << << <<"Text">> >>,
                           << <<"CheckBox", "RadioButtons">> >> >>
     /\ HasFocusedWidget(Self) /\ Cursor(Self) = <<0, 0, 0>>)
    => /\ Cursor(Sent(Self, Tab, 1)) = <<1, 0, 0>>
       /\ Cursor(Sent(Self, Tab, 2)) = <<1, 0, 1>>
       /\ Cursor(Sent(Self, Tab, 3)) = <<0, 0, 0>>
       /\ \A n \in 1..3 : HasFocusedWidget(Sent(Self, Tab, n))

\* C3: each TAB moves the focus to the next tab stop in declared order (the
\* rest of the column, then the columns to the right, then the first tab
\* stop of the next Layout, the last Layout wrapping to Layout 0), whenever
\* there is such a tab stop; and from the Text of the Frame [Text],
\* [CheckBox, RadioButtons] three TABs visit CheckBox, RadioButtons, Text.
C3_TabOrder == [][C3_Step]_vars /\ []C3_Scenario

\* a TAB just skipped a widget that is no tab stop on its way to the next
\* column
C3_Witness ==
    /\ pc = "ready" /\ ~raised
    /\ op = "process_event" /\ event = Tab /\ ret = None
    /\ Cursor(Self)[2] = 1
    /\ \E p \in Positions(Self) \ TabStops(Self) :
          p[1] = focus /\ Before(p, Cursor(Self))
    /\ WidgetAt(Self, Cursor(Self)).has_focus

\* C4: at most one widget of the Frame has has_focus true.
C4_AtMostOneFocus == Cardinality(FocusedWidgets(Self)) <= 1

\* C5: once the Frame is fixed and has a tab stop anywhere, no call has
\* raised, the cursor of the focused Layout is on a tab stop, and that
\* widget has the focus.
C5_AlwaysFocused ==
    (pc \in {"fixed", "ready"} /\ TabStops(Self) /= {})
    => /\ ~raised
       /\ Cursor(Self) \in TabStops(Self)
       /\ \E p \in TabStops(Self) : WidgetAt(Self, p).has_focus

\* the key codes a widget of each class handles itself
Recognizes(w, e) ==
    /\ IsKeyboardEvent(e)
    /\ CASE w.kind = "Text" ->
              \/ e.key_code \in {KEY_BACK, KEY_LEFT, KEY_RIGHT, KEY_HOME, KEY_END}
              \/ e.key_code \in 32..255
         [] w.kind = "CheckBox" -> e.key_code \in {32, LF, CR}
         [] w.kind = "RadioButtons" -> e.key_code \in {KEY_UP, KEY_DOWN}
         [] w.kind = "TextBox" ->
              \/ e.key_code \in {LF, CR, KEY_BACK, KEY_UP, KEY_DOWN, KEY_LEFT,
                                 KEY_RIGHT, KEY_HOME, KEY_END}
              \/ e.key_code \in 32..255
         [] OTHER -> FALSE

\* neither the widget under the cursor nor the Layout nor the Frame handles e
Declined(f, e) ==
    /\ ~Recognizes(WidgetAt(f, Cursor(f)), e)
    /\ IsKeyboardEvent(e)
          => e.key_code \notin {KEY_TAB, KEY_BACK_TAB, KEY_UP, KEY_DOWN}

\* one call of Frame.process_event, as C6 describes it
C6_Step ==
    (pc = "ready" /\ op' = "process_event" /\ Cursor(Self) \in Positions(Self))
    => IF Declined(Self, event')
       THEN /\ ret' = event'
            /\ focus' = focus /\ layouts' = layouts /\ canvas' = canvas
       ELSE ret' = None

\* C6: Frame.process_event returns the event unchanged exactly when the
\* widget under the cursor does not recognize it and it is not TAB, BACK_TAB,
\* UP or DOWN (or no keyboard event), and then changes nothing; in every
\* other case it returns None.
C6_EventRouting == [][C6_Step]_vars

(***************************************************************************)
(* One editing widget on its own: a Text or a TextBox that a Layout of one *)
(* column has placed, then reset, then offered events and updated in any   *)
(* order.  The variables of the Frame stay as they are.                    *)
(***************************************************************************)
\* "one\ntwo"
StrOneTwo == <<111, 110, 101, LF, 116, 119, 111>>

\* "aaa"
StrAAA == <<97, 97, 97>>

\* "aa\na"
StrAA_A == <<97, 97, LF, 97>>

Labels == {NoLabel, WithLabel(<<76>>)}

\* the widget as Layout.add_widget and Layout.fix leave it in a Layout of
\* one column on a canvas of the given width
Placed(w, width) ==
    LiveWidget([Layout_fix(Layout_add_widget(Layout(<<1>>), w, 0),
                           Canvas(CanvasHeight, width), 0).layout
                   EXCEPT !.live_widget = 0])

\* [("A", "1"), ("B", "2"), ("C", "3")]
ThreeOptions == << <<<<65>>, <<49>>>>, <<<<66>>, <<50>>>>, <<<<67>>, <<51>>>> >>

OneOption == << <<<<65>>, <<49>>>> >>

\* the widget once Widget.focus was called on it
Focused(w) == Widget_focus(w, Canvas(CanvasHeight, CanvasWidth)).w

\* widgets to edit, with room for all their text
EditWidgets ==
    {Placed(Text(t, NoLabel), CanvasWidth) : t \in {<<>>, StrHi}}
    \cup {Placed(Text(StrHi, NoLabel), 1)}
    \cup {Placed(TextBox(StrOneTwo, MaxLines, NoLabel), CanvasWidth)}
    \cup {Placed(CheckBox(StrHi, NoLabel), CanvasWidth),
          Focused(Placed(CheckBox(StrHi, NoLabel), CanvasWidth)),
          Placed(RadioButtons(ThreeOptions, NoLabel), CanvasWidth),
          Focused(Placed(RadioButtons(ThreeOptions, NoLabel), CanvasWidth)),
          Placed(RadioButtons(OneOption, NoLabel), CanvasWidth)}

\* widgets to scroll, of every size up to MaxWidth by MaxHeight + 2
ScrollWidgets ==
    {Placed(Text(StrAAA, l), width) : l \in Labels, width \in 0..MaxWidth}
    \cup
    {Placed(TextBox(StrAA_A, h, l), width) :
        h \in 0..MaxHeight, l \in Labels, width \in 0..MaxWidth}

TextKeys ==
    {KEY_BACK, KEY_LEFT, KEY_RIGHT, KEY_HOME, KEY_END, KEY_TAB,
     31, 32, 88, 97, 98, 255, 256}

TextBoxKeys ==
    {LF, CR, KEY_BACK, KEY_UP, KEY_DOWN, KEY_LEFT, KEY_RIGHT, KEY_HOME,
     KEY_END, KEY_TAB, 97, 256}

CheckBoxKeys == {32, LF, CR, 31, 33, 97, KEY_UP, KEY_DOWN, KEY_TAB, KEY_BACK}

RadioButtonsKeys == {KEY_UP, KEY_DOWN, 32, LF, KEY_TAB, KEY_BACK_TAB}

\* the events offered to a widget that is edited
EditEvents(w) ==
    {KeyboardEvent(k) :
        k \in CASE w.kind = "Text" -> TextKeys
               [] w.kind = "TextBox" -> TextBoxKeys
               [] w.kind = "CheckBox" -> CheckBoxKeys
               [] OTHER -> RadioButtonsKeys}
    \cup {MouseEvent}

\* the events offered to a widget that is scrolled
ScrollEvents(w) ==
    {KeyboardEvent(k) :
        k \in IF w.kind = "Text"
              THEN {KEY_BACK, KEY_LEFT, KEY_RIGHT, KEY_HOME, KEY_END, 97}
              ELSE {LF, KEY_BACK, KEY_UP, KEY_DOWN, KEY_LEFT, KEY_RIGHT,
                    KEY_HOME, KEY_END, 97}}

RECURSIVE TotalLen(_)
\* the number of characters in a list of lines
TotalLen(value) ==
    IF value = <<>> THEN 0 ELSE Len(Head(value)) + TotalLen(Tail(value))

\* the widget has room for what key k would add
RoomFor(w, k) ==
    /\ (32 <= k /\ k < 256 /\ w.kind = "Text") => Len(w.value) < MaxLen
    /\ (32 <= k /\ k < 256 /\ w.kind = "TextBox") =>
           TotalLen(w.value) < MaxLen
    /\ (k \in {LF, CR} /\ w.kind = "TextBox") => Len(w.value) < MaxLines

\* a call on the widget left r.w and returned r.event
WidgetReturns(r) ==
    /\ widget' = r.w
    /\ ret' = r.event

\* the widget is one of ws, placed and not yet reset
InitPlaced(ws) ==
    /\ widget \in ws
    /\ pc = "placed"
    /\ op = "init"
    /\ event = None
    /\ ret = None
    /\ focus = 0
    /\ layouts = <<>>
    /\ canvas = Canvas(CanvasHeight, 0)
    /\ raised = FALSE

InitEdit == InitPlaced(EditWidgets)

InitScroll == InitPlaced(ScrollWidgets)

\* widget.reset(): first when the Frame is attached, then on demand
WidgetReset ==
    /\ pc \in {"placed", "ready"}
    /\ widget' = Widget_reset(widget)
    /\ pc' = "ready"
    /\ op' = "reset"
    /\ event' = None
    /\ ret' = None
    /\ UNCHANGED <<focus, layouts, canvas, raised>>

\* widget.process_event(e) for one of the events
Offer(events) ==
    /\ pc = "ready"
    /\ \E e \in events :
          /\ IsKeyboardEvent(e) => RoomFor(widget, e.key_code)
          /\ WidgetReturns(Widget_process_event(widget, e))
          /\ event' = e
    /\ op' = "process_event"
    /\ UNCHANGED <<focus, layouts, canvas, raised, pc>>

EditEvent == Offer(EditEvents(widget))

ScrollEvent == Offer(ScrollEvents(widget))

\* widget.update(frame_no)
WidgetUpdate ==
    /\ pc = "ready"
    /\ widget' = Widget_update(widget)
    /\ op' = "update"
    /\ event' = None
    /\ ret' = None
    /\ UNCHANGED <<focus, layouts, canvas, raised, pc>>

NextEdit == WidgetReset \/ EditEvent \/ WidgetUpdate

SpecEdit == InitEdit /\ [][NextEdit]_vars

NextScroll == WidgetReset \/ ScrollEvent \/ WidgetUpdate

SpecScroll == InitScroll /\ [][NextScroll]_vars

(***************************************************************************)
(* Vocabulary of the claims about editing.                                 *)
(***************************************************************************)
RECURSIVE Typed(_, _)
\* the widget after it was offered the keys one after the other
Typed(w, keys) ==
    IF keys = <<>> THEN w
    ELSE Typed(Widget_process_event(w, KeyboardEvent(Head(keys))).w,
               Tail(keys))

\* the widget is of this class and has been reset
Ready(kind) == pc = "ready" /\ widget.kind = kind

\* the same text with the cursor at the same place
SameText(a, b) ==
    /\ a.value = b.value
    /\ a.line = b.line
    /\ a.column = b.column

\* the cells of the visible area: the entry field of a Text, the inside of
\* the border of a TextBox
VisibleColumns(w) ==
    IF w.kind = "Text" THEN w.w - w.offset ELSE w.w - w.offset - 2

VisibleLines(w) == IF w.kind = "Text" THEN 1 ELSE w.h - 2

CursorLine(w) == IF w.kind = "Text" THEN 0 ELSE w.line

StartLine(w) == IF w.kind = "Text" THEN 0 ELSE w.start_line

\* a window of `size` cells from `start` on shows the cursor
Inside(cursor, start, size) == start <= cursor /\ cursor <= start + size - 1

CursorInside(w) ==
    /\ Inside(w.column, w.start_column, VisibleColumns(w))
    /\ Inside(CursorLine(w), StartLine(w), VisibleLines(w))

\* the visible area has a cell at all
HasRoom(w) == VisibleColumns(w) >= 1 /\ VisibleLines(w) >= 1

Distance(a, b) == IF a >= b THEN a - b ELSE b - a

\* a window that started at s starts at s2 after the update: where it was
\* if it showed the cursor c, else at the nearest start that shows it
Minimal(s, s2, c, size) ==
    IF Inside(c, s, size) THEN s2 = s
    ELSE /\ Inside(c, s2, size)
         /\ \A o \in 0..c :
               Inside(c, o, size) => Distance(s2, s) <= Distance(o, s)

(***************************************************************************)
(* The claims about editing.                                               *)
(***************************************************************************)
\* C7 (each key): a process_event call on a reset Text does what the key
\* stands for: a character 32..255 is inserted at the cursor, which moves
\* on by one; Backspace removes the character before the cursor and does
\* nothing at column 0; Left and Right move by one within 0..len(value);
\* Home and End go to 0 and len(value).
C7_Step ==
    (Ready("Text") /\ op' = "process_event" /\ IsKeyboardEvent(event')) =>
        LET k == event'.key_code
            v == widget.value
            c == widget.column
            n == Len(widget.value)
            v2 == widget'.value
            c2 == widget'.column
        IN  /\ (32 <= k /\ k <= 255) =>
                  /\ v2 = SubSeq(v, 1, c) \o <<k>> \o SubSeq(v, c + 1, n)
                  /\ c2 = c + 1
            /\ k = KEY_BACK =>
                  IF c = 0 THEN v2 = v /\ c2 = 0
                  ELSE /\ v2 = SubSeq(v, 1, c - 1) \o SubSeq(v, c + 1, n)
                       /\ c2 = c - 1
            /\ k = KEY_LEFT => v2 = v /\ c2 = (IF c = 0 THEN 0 ELSE c - 1)
            /\ k = KEY_RIGHT => v2 = v /\ c2 = (IF c = n THEN n ELSE c + 1)
            /\ k = KEY_HOME => v2 = v /\ c2 = 0
            /\ k = KEY_END => v2 = v /\ c2 = n

\* C7 (bounds): the cursor of a reset Text is within 0..len(value).
C7_Bounds ==
    Ready("Text") =>
        0 <= widget.column /\ widget.column <= Len(widget.value)

\* C7 (scenario): 'a', 'b', Left, 'X' typed into an empty Text give "aXb"
\* with the cursor at column 2.
C7_Scenario ==
    (Ready("Text") /\ widget.value = <<>>) =>
        LET w == Typed(widget, <<97, 98, KEY_LEFT, 88>>)
        IN  w.value = <<97, 88, 98>> /\ w.column = 2

\* C7: for a Text after reset, every key sequence keeps
\* 0 <= column <= len(value), each key edits as C7_Step says, and typing
\* 'a', 'b', Left, 'X' into an empty Text gives "aXb" with the cursor at 2.
C7_TextEditing == [][C7_Step]_vars /\ [](C7_Bounds /\ C7_Scenario)

C7_Witness ==
    /\ Ready("Text")
    /\ widget.text = <<>>
    /\ op = "process_event"
    /\ event = KeyboardEvent(88)
    /\ widget.value = <<97, 88, 98>>
    /\ widget.column = 2

\* C8 as stated, for a widget of any size: after an update the cursor is
\* inside the visible area of the Text or TextBox.
C8_AnySize == (pc = "ready" /\ op = "update") => CursorInside(widget)

\* C8 (inside): after an update of a Text or TextBox whose visible area has
\* at least one cell, the cursor is inside that area.
C8_Inside ==
    (pc = "ready" /\ op = "update" /\ HasRoom(widget)) => CursorInside(widget)

\* C8 (minimal scroll): an update of such a widget leaves start_column and
\* start_line alone when they showed the cursor, and else moves each by the
\* least amount that shows it.
C8_Step ==
    (pc = "ready" /\ op' = "update" /\ HasRoom(widget)) =>
        /\ Minimal(widget.start_column, widget'.start_column, widget.column,
                   VisibleColumns(widget))
        /\ Minimal(StartLine(widget), StartLine(widget'), CursorLine(widget),
                   VisibleLines(widget))

\* C8: for a Text or TextBox whose visible area has at least one cell, after
\* any key events and updates every update leaves the cursor inside the
\* visible area, having moved the scroll origin not at all if the cursor
\* was visible and else by the least amount that makes it visible.
C8_ScrollWindow == [][C8_Step]_vars /\ []C8_Inside

C8_Witness ==
    /\ Ready("TextBox")
    /\ op = "update"
    /\ HasRoom(widget)
    /\ widget.start_line > 0
    /\ widget.start_column > 0

\* C9: in every TextBox state, Enter (CR or LF) followed at once by
\* Backspace gives back the same lines and the same cursor line and column.
C9_EnterBackspace ==
    Ready("TextBox") =>
        \A enter \in {LF, CR} :
            SameText(Typed(widget, <<enter, KEY_BACK>>), widget)

C9_Witness ==
    /\ Ready("TextBox")
    /\ op = "process_event"
    /\ event = KeyboardEvent(KEY_BACK)
    /\ Len(widget.value) >= 2
    /\ 0 < widget.column
    /\ widget.column < Len(Index(widget.value, widget.line))
    /\ Len(Typed(widget, <<LF>>).value) = Len(widget.value) + 1
    /\ Typed(widget, <<LF>>).column = 0
    /\ SameText(Typed(widget, <<LF, KEY_BACK>>), widget)

\* C10 (each Backspace at column 0): below line 0 it appends the line to
\* the one before, removes its entry and puts the cursor where the line
\* before ended; on line 0 it changes nothing.
C10_Step ==
    (/\ Ready("TextBox")
     /\ op' = "process_event"
     /\ event' = KeyboardEvent(KEY_BACK)
     /\ widget.column = 0) =>
        LET v == widget.value
            l == widget.line
            v2 == widget'.value
        IN  IF l > 0
            THEN /\ Len(v2) = Len(v) - 1
                 /\ v2[l] = v[l] \o v[l + 1]
                 /\ \A i \in 1..(l - 1) : v2[i] = v[i]
                 /\ \A i \in (l + 1)..Len(v2) : v2[i] = v[i + 1]
                 /\ widget'.line = l - 1
                 /\ widget'.column = Len(v[l])
            ELSE SameText(widget', widget)

\* C10 (scenario): with the lines "one", "two" and the cursor at line 1,
\* column 0, Backspace gives the one line "onetwo", cursor at line 0,
\* column 3.
C10_Scenario ==
    (/\ Ready("TextBox")
     /\ widget.value = <<<<111, 110, 101>>, <<116, 119, 111>>>>
     /\ widget.line = 1
     /\ widget.column = 0) =>
        LET w == Typed(widget, <<KEY_BACK>>)
        IN  /\ w.value = <<<<111, 110, 101, 116, 119, 111>>>>
            /\ w.line = 0
            /\ w.column = 3

\* C10: in a TextBox, Backspace at column 0 of a line l > 0 joins line l
\* onto line l-1 (one line less, cursor at line l-1 and the former length
\* of line l-1), at column 0 of line 0 it changes nothing, and "one", "two"
\* with the cursor at (1, 0) become "onetwo" with the cursor at (0, 3).
C10_BackspaceJoins == [][C10_Step]_vars /\ []C10_Scenario

C10_Witness ==
    /\ Ready("TextBox")
    /\ op = "process_event"
    /\ event = KeyboardEvent(KEY_BACK)
    /\ widget.value = <<<<111, 110, 101, 116, 119, 111>>>>
    /\ widget.line = 0
    /\ widget.column = 3

(***************************************************************************)
(* The claims about CheckBox and RadioButtons.                             *)
(***************************************************************************)
ToggleKeys == {32, LF, CR}

\* C11 (each key): on a focused CheckBox, space, LF and CR negate the
\* value; any other key leaves the value alone and is returned.
C11_Step ==
    (/\ Ready("CheckBox")
     /\ widget.has_focus
     /\ op' = "process_event"
     /\ IsKeyboardEvent(event')) =>
        IF event'.key_code \in ToggleKeys
        THEN widget'.value \in BOOLEAN /\ widget'.value /= widget.value
        ELSE widget'.value = widget.value /\ ret' = event'

\* C11 (twice): any two of these keys in a row give back the value held
\* before them.
C11_Twice ==
    (Ready("CheckBox") /\ widget.has_focus) =>
        /\ widget.value \in BOOLEAN
        /\ \A k1 \in ToggleKeys : \A k2 \in ToggleKeys :
              Typed(widget, <<k1, k2>>).value = widget.value

\* C11: for a focused CheckBox each of space, LF and CR negates the boolean
\* value, so two such keys in a row restore it; every other key leaves the
\* value unchanged and is returned unconsumed.
C11_CheckBoxToggle == [][C11_Step]_vars /\ []C11_Twice

C11_Witness ==
    /\ Ready("CheckBox")
    /\ widget.has_focus
    /\ op = "process_event"
    /\ event = KeyboardEvent(CR)
    /\ widget.value = FALSE

\* C12: after reset and any Up/Down keys, the value of a RadioButtons widget
\* is v_k, the second member of the selected option (text_k, v_k).
C12_RadioValue ==
    Ready("RadioButtons") =>
        widget.value = Index(widget.options, widget.selection)[2]

(***************************************************************************)
(* The claim about reset.                                                  *)
(***************************************************************************)
RECURSIVE Joined(_)
\* the lines put together again with a newline between them
Joined(lines) ==
    IF Len(lines) = 1 THEN Head(lines)
    ELSE Head(lines) \o <<LF>> \o Joined(Tail(lines))

\* the value and cursor the construction parameters of w stand for
Default(w) ==
    CASE w.kind = "Text" -> w.value = w.text /\ w.column = Len(w.text)
      [] w.kind = "CheckBox" -> w.value = FALSE
      [] w.kind = "RadioButtons" -> w.selection = 0
      [] w.kind = "TextBox" ->
            /\ Len(w.value) >= 1
            /\ \A i \in 1..Len(w.value) :
                  \A j \in 1..Len(w.value[i]) : w.value[i][j] /= LF
            /\ Joined(w.value) = w.text
            /\ w.line = Len(w.value) - 1
            /\ w.column = Len(w.value[Len(w.value)])

\* C17: whatever keys a Text, CheckBox, RadioButtons or TextBox was given,
\* a reset leaves the value and cursor its construction parameters stand
\* for: the initial text with the cursor at its end, false, the first
\* option, the initial text split on newlines with the cursor at the end of
\* the last line and no trace of earlier edits.
C17_ResetRestores == op = "reset" => Default(widget)

\* a Text one column wide, scrolled to column 1 by a Left key and an update,
\* and then reset
C17_Witness ==
    /\ Ready("Text")
    /\ op = "reset"
    /\ widget.w = 1
    /\ widget.start_column = 1
    /\ widget.column = 2
    /\ widget.value = widget.text

(***************************************************************************)
(* One Layout on its own: built from a list of weights, given widgets,     *)
(* then fixed on a canvas.  `event` holds the arguments of the last call   *)
(* and `ret` what it returned; a call that raises ends the run.            *)
(***************************************************************************)
MaxWeight == 15

MaxColumns == 2

MaxCanvasWidth == 22

MaxWidgets == 2

RECURSIVE Lists(_, _)
\* the lists of at most n members of S
Lists(S, n) ==
    IF n = 0 THEN {<<>>}
    ELSE Lists(S, n - 1)
         \cup {Append(l, x) : l \in {m \in Lists(S, n - 1) : Len(m) = n - 1},
                              x \in S}

\* the arguments Layout is built with
WeightLists == Lists(0..MaxWeight, MaxColumns)

\* the arguments add_widget is called with
ColumnArguments == (0 - MaxColumns - 1)..(MaxColumns + 1)

\* the number of widgets in the Layout
WidgetCount(l) == Sum([c \in 1..Len(l.columns) |-> Len(l.columns[c])])

InitLayout ==
    /\ \E width \in 0..MaxCanvasWidth : canvas = Canvas(CanvasHeight, width)
    /\ layouts = <<>>
    /\ focus = 0
    /\ raised = FALSE
    /\ pc = "new"
    /\ op = "init"
    /\ event = None
    /\ ret = None
    /\ widget = None

\* Layout(columns)
NewLayout ==
    /\ pc = "new"
    /\ \E columns \in WeightLists :
          /\ event' = columns
          /\ IF Layout_raises(columns)
             THEN /\ raised' = TRUE
                  /\ ret' = Raised
                  /\ UNCHANGED layouts
             ELSE /\ layouts' = <<Layout(columns)>>
                  /\ ret' = None
                  /\ UNCHANGED raised
    /\ pc' = "built"
    /\ op' = "Layout"
    /\ UNCHANGED <<focus, canvas, widget>>

\* the widgets add_widget is called with: Text("", label="L"), Text(""),
\* Text("", label="LLLL") and Label("abcdef")
StrLLLL == <<76, 76, 76, 76>>

StrAbcdef == <<97, 98, 99, 100, 101, 102>>

WidgetArguments ==
    {Text(<<>>, WithLabel(<<76>>)), Text(<<>>, NoLabel),
     Text(<<>>, WithLabel(StrLLLL)), Label(StrAbcdef)}

\* layout.add_widget(w, column)
AddWidget ==
    /\ pc = "built"
    /\ ~raised
    /\ WidgetCount(layouts[1]) < MaxWidgets
    /\ \E column \in ColumnArguments, w \in WidgetArguments :
          /\ event' = column
          /\ IF Layout_add_widget_raises(layouts[1], column)
             THEN /\ raised' = TRUE
                  /\ ret' = Raised
                  /\ UNCHANGED layouts
             ELSE /\ layouts' = <<Layout_add_widget(layouts[1], w, column)>>
                  /\ ret' = None
                  /\ UNCHANGED raised
    /\ op' = "add_widget"
    /\ UNCHANGED <<focus, canvas, pc, widget>>

\* what Layout.fix left: the Layout and the return value
Fixes(r) ==
    /\ layouts' = <<r.layout>>
    /\ ret' = r.max_y

\* layout.fix(start_y)
FixLayout ==
    /\ pc = "built"
    /\ ~raised
    /\ \E start_y \in 0..1 :
          /\ Fixes(Layout_fix(layouts[1], canvas, start_y))
          /\ event' = start_y
    /\ pc' = "fixed"
    /\ op' = "fix"
    /\ UNCHANGED <<focus, canvas, raised, widget>>

NextLayout == NewLayout \/ AddWidget \/ FixLayout

SpecLayout == InitLayout /\ [][NextLayout]_vars

(***************************************************************************)
(* The claims about building and fixing a Layout.                          *)
(***************************************************************************)
\* floor(canvas_width * weight[c] / sum(weights)) for column c (from 1) of
\* the Layout l
FloorWidth(l, canvas_width, c) ==
    (canvas_width * l.column_sizes[c][1]) \div l.column_sizes[c][2]

\* C13: Layout.fix gives column i the width
\* floor(canvas_width * weight[i] / sum(weights)) and as x the sum of the
\* widths of the columns before it (so no width is negative, no two columns
\* overlap and the widths sum to at most canvas_width): seen on every
\* widget of the column.
C13_ColumnWidths ==
    (pc = "fixed" /\ op = "fix") =>
        \A c \in 1..Len(layouts[1].columns) :
            \A k \in 1..Len(layouts[1].columns[c]) :
                /\ layouts[1].columns[c][k].w =
                       FloorWidth(layouts[1], canvas.width, c)
                /\ layouts[1].columns[c][k].x =
                       Sum([i \in 1..(c - 1) |->
                               FloorWidth(layouts[1], canvas.width, i)])

\* C15: Layout built from an empty list of weights, or from weights that
\* sum to zero, fails at construction.
C15_RejectedAtConstruction ==
    (op = "Layout" /\ Sum(event) = 0) => raised

\* C16 (each call): add_widget with a column outside
\* 0..number_of_columns-1 raises and leaves the columns as they were.
C16_Step ==
    (/\ pc = "built"
     /\ ~raised
     /\ op' = "add_widget"
     /\ event' \notin 0..(Len(layouts[1].columns) - 1)) =>
        /\ ret' = Raised
        /\ layouts' = layouts

\* C16: Layout.add_widget(widget, column) with any column that names no
\* existing column, negative ones included, fails at the call and leaves
\* every column of the Layout unchanged.
C16_BadColumnRejected == [][C16_Step]_vars

(***************************************************************************)
(* The claim about the rows Frame.fix gives the widgets.                   *)
(***************************************************************************)
\* the height widget k of a column asks for
RequiredHeight(column, k) ==
    Widget_required_height(column[k], column[k].offset, column[k].w)

\* the rows the first k widgets of a column ask for
HeightAbove(column, k) == Sum([m \in 1..k |-> RequiredHeight(column, m)])

\* the greatest member of a set of numbers
Greatest(S) == CHOOSE m \in S : \A e \in S : e <= m

\* the greatest end row of the columns of Layout l started at row start
EndY(l, start) ==
    Greatest({start} \cup
             {start + HeightAbove(l.columns[c], Len(l.columns[c])) :
                 c \in 1..Len(l.columns)})

RECURSIVE StartY(_, _)
\* the row Layout i (from 1) starts at: 0, then where the one before ended
StartY(ls, i) == IF i = 1 THEN 0 ELSE EndY(ls[i - 1], StartY(ls, i - 1))

\* the rows a widget covers
Rows(w) == w.y..(w.y + w.h - 1)

\* C14: after Frame.fix every widget k of a column is at the row its Layout
\* starts at plus the required heights of the widgets above it (no gap, no
\* overlap), every Layout starts where the tallest column of the one before
\* ended (the first at 0, a Layout without widgets ends where it starts),
\* and widgets of different Layouts share no row.
C14_Stacked ==
    pc \in {"fixed", "ready"} =>
        /\ \A l \in 1..Len(layouts) : \A c \in 1..Len(layouts[l].columns) :
              \A k \in 1..Len(layouts[l].columns[c]) :
                 /\ layouts[l].columns[c][k].y =
                       StartY(layouts, l)
                       + HeightAbove(layouts[l].columns[c], k - 1)
                 /\ layouts[l].columns[c][k].h =
                       RequiredHeight(layouts[l].columns[c], k)
        /\ \A p \in Positions(Self) : \A q \in Positions(Self) :
              p[1] /= q[1] =>
                 Rows(WidgetAt(Self, p)) \cap Rows(WidgetAt(Self, q)) = {}

\* three Layouts fixed: the first has an empty column 0 and the second
\* starts below its column 1; the third starts below column 1 of the second,
\* which is taller than its column 0
C14_Witness ==
    /\ op = "fix"
    /\ ~raised
    /\ Len(layouts) = 3
    /\ layouts[1].columns[1] = <<>>
    /\ layouts[2].columns[1][1].y = 4
    /\ HeightAbove(layouts[2].columns[1], 2) < HeightAbove(layouts[2].columns[2], 2)
    /\ layouts[3].columns[1][1].y = 8

(***************************************************************************)
(* The claims about the focus cursor of a Layout.                          *)
(***************************************************************************)
\* (live_col, live_widget) names a widget of the Layout, counted from 0,
\* and that widget is a tab stop
CursorOnTabStop(l) ==
    /\ 0 <= l.live_col
    /\ l.live_col < Len(l.columns)
    /\ 0 <= l.live_widget
    /\ l.live_widget < Len(l.columns[l.live_col + 1])
    /\ l.columns[l.live_col + 1][l.live_widget + 1].is_tab_stop

\* C18: after Frame.fix, between any process_event and reset calls, the
\* cursor (live_col, live_widget) of every Layout is a position inside its
\* columns whose widget is a tab stop.
C18_CursorOnTabStop ==
    (pc \in {"fixed", "ready"} /\ ~raised) =>
        \A l \in 1..Len(layouts) : CursorOnTabStop(layouts[l])

(***************************************************************************)
(* UP and DOWN inside a column.                                            *)
(***************************************************************************)
\* the widget that is offered the events of the Frame
Offered(f) == LiveWidget(Index(f.layouts, f.focus))

\* the widget that is offered the event hands it back
Declines(f, e) ==
    /\ HasIndex(f.layouts, f.focus)
    /\ HasLiveWidget(Index(f.layouts, f.focus))
    /\ Widget_process_event(Offered(f), e).event /= None

\* the tab stops of p's column that lie beyond p in the direction d
Beyond(f, p, d) ==
    {q \in TabStops(f) : /\ q[1] = p[1]
                         /\ q[2] = p[2]
                         /\ (q[3] - p[3]) * d > 0}

\* the one of them closest to p
Nearest(S, p, d) == CHOOSE q \in S : \A r \in S : (r[3] - q[3]) * d >= 0

UpDownStep(d) ==
    LET p == Cursor(Self)
    IN  /\ ~raised'
        /\ ret' = None
        /\ focus' = focus
        /\ Cursor(Self)'[2] = p[2]
        /\ IF Beyond(Self, p, d) /= {}
           THEN Cursor(Self)' = Nearest(Beyond(Self, p, d), p, d)
           ELSE /\ Cursor(Self)' = p
                /\ FocusedWidgets(Self)' = FocusedWidgets(Self)

C19_Step ==
    (op' = "process_event" /\ event' \in {KeyboardEvent(KEY_UP), KeyboardEvent(KEY_DOWN)}
        /\ Declines(Self, event'))
    => UpDownStep(IF event'.key_code = KEY_DOWN THEN 1 ELSE -1)

\* C19: an UP or DOWN key that the focused widget hands back is consumed, the
\* focused Layout and its cursor column stay, the cursor moves to the nearest
\* tab stop of its column in that direction, and when the column has none
\* there the cursor and the set of focused widgets are as before the key.
C19_UpDownInColumn == [][C19_Step]_vars

(***************************************************************************)
(* Scrolling the canvas to the widget that gets the focus.                 *)
(***************************************************************************)
\* rows w.y .. w.y + w.h - 1 lie in a window of that height starting at line
Shows(height, line, w) ==
    /\ line >= 0
    /\ w.y >= line
    /\ w.y + w.h - 1 < line + height

\* the step ends with a call of focus() on the widget under the cursor: the
\* keys by which Layout.process_event and Frame.process_event move the focus
\* once the widget has handed them back, and Frame.fix
GivesFocus ==
    \/ op' = "fix"
    \/ /\ op' = "process_event"
       /\ event' \in {KeyboardEvent(k) : k \in {KEY_TAB, KEY_BACK_TAB, KEY_UP, KEY_DOWN}}
       /\ Declines(Self, event')

ScrolledTo(w) ==
    /\ Shows(canvas'.height, canvas'.start_line, w)
    /\ \A line \in 0..(w.y + w.h) :
          Shows(canvas'.height, line, w) =>
              Distance(canvas'.start_line, canvas.start_line)
                  <= Distance(line, canvas.start_line)

C20_Step ==
    (GivesFocus /\ ~raised' /\ Cursor(Self)' \in TabStops(Self)'
        /\ WidgetAt(Self, Cursor(Self))'.h <= canvas.height)
    => ScrolledTo(WidgetAt(Self, Cursor(Self))')

\* C20: after a step that gives a widget the focus, every row of the widget
\* (when it is no taller than the canvas) is inside the visible window, and
\* the window has moved by the smallest distance that makes it so.
C20_FocusScrolls == [][C20_Step]_vars

(***************************************************************************)
(* The label offset of a column.                                           *)
(***************************************************************************)
\* the lengths of the labels of the widgets of a column
LabelLengths(column) ==
    {Len(column[k].label) : k \in {i \in 1..Len(column) : column[i].has_label}}

\* the longest label of the column and one column more, 0 without a label
LabelRoom(column) ==
    IF LabelLengths(column) = {} THEN 0
    ELSE 1 + CHOOSE n \in LabelLengths(column) :
                 \A m \in LabelLengths(column) : m <= n

\* C21: after Layout.fix, every widget of a column has the label offset
\* min(L, floor(column_width / 3)), L being 0 when no widget of the column
\* has a label (the text of a Label is none) and else the length of the
\* longest label plus one; fix raises nothing, whatever columns are empty.
C21_LabelOffset ==
    (pc = "fixed" /\ op = "fix") =>
        /\ ~raised
        /\ \A c \in 1..Len(layouts[1].columns) :
              \A k \in 1..Len(layouts[1].columns[c]) :
                  layouts[1].columns[c][k].offset =
                      Min(LabelRoom(layouts[1].columns[c]),
                          layouts[1].columns[c][k].w \div 3)

\* fixed: an empty column beside a column holding a Label whose text is
\* longer than the label of the Text below it, the offset cut to a third
C21_Witness ==
    /\ pc = "fixed"
    /\ op = "fix"
    /\ Len(layouts[1].columns) = 2
    /\ layouts[1].columns[1] = <<>>
    /\ Len(layouts[1].columns[2]) = 2
    /\ layouts[1].columns[2][1].kind = "Label"
    /\ layouts[1].columns[2][2].label = StrLLLL
    /\ layouts[1].columns[2][2].w = 10
    /\ layouts[1].columns[2][2].offset = 3
    /\ layouts[1].columns[2][1].offset = 3

(***************************************************************************)
(* Moving the cursor of a TextBox.                                         *)
(***************************************************************************)
ArrowKeys == {KEY_LEFT, KEY_RIGHT, KEY_UP, KEY_DOWN}

\* the length of line l (from 0) of the TextBox w
LineLength(w, l) == Len(w.value[l + 1])

\* where the claim puts the cursor of the TextBox w after the key k
Arrow(w, k) ==
    LET l == w.line
        c == w.column
        last == Len(w.value) - 1
        up == IF l = 0 THEN 0 ELSE l - 1
        down == IF l = last THEN last ELSE l + 1
    IN  CASE k = KEY_LEFT ->
               IF c > 0 THEN <<l, c - 1>>
               ELSE IF l > 0 THEN <<l - 1, LineLength(w, l - 1)>>
               ELSE <<l, c>>
          [] k = KEY_RIGHT ->
               IF c < LineLength(w, l) THEN <<l, c + 1>>
               ELSE IF l < last THEN <<l + 1, 0>>
               ELSE <<l, c>>
          [] k = KEY_UP -> <<up, Min(c, LineLength(w, up))>>
          [] OTHER -> <<down, Min(c, LineLength(w, down))>>

C22_Step ==
    (/\ Ready("TextBox")
     /\ op' = "process_event"
     /\ IsKeyboardEvent(event')
     /\ event'.key_code \in ArrowKeys) =>
        /\ <<widget'.line, widget'.column>> = Arrow(widget, event'.key_code)
        /\ widget'.value = widget.value
        /\ ret' = None

\* C22: in a TextBox, Left at the start of a line goes to the end of the
\* line before and Right at the end of a line to the start of the next one
\* (nothing moves at the start and at the end of the text, one character
\* elsewhere); Up and Down go one line, staying on the first and the last
\* line, with the column cut to the length of the line reached; none of the
\* four keys changes the lines.
C22_CursorKeys == [][C22_Step]_vars

\* Up has just moved the cursor from beyond the end of a shorter line
C22_Witness ==
    /\ Ready("TextBox")
    /\ op = "process_event"
    /\ event = KeyboardEvent(KEY_UP)
    /\ Len(widget.value) = 2
    /\ Len(widget.value[1]) = 1
    /\ Len(widget.value[2]) = 3
    /\ widget.line = 0
    /\ widget.column = 1

(***************************************************************************)
(* The selection of a RadioButtons.                                        *)
(***************************************************************************)
C23_InRange ==
    Ready("RadioButtons") =>
        /\ 0 <= widget.selection
        /\ widget.selection <= Len(widget.options) - 1

C23_Step ==
    (/\ Ready("RadioButtons")
     /\ op' = "process_event"
     /\ event' \in {KeyboardEvent(KEY_UP), KeyboardEvent(KEY_DOWN)}) =>
        LET i == widget.selection
            n == Len(widget.options)
        IN  widget'.selection =
                IF event'.key_code = KEY_UP
                THEN (IF i = 0 THEN 0 ELSE i - 1)
                ELSE (IF i = n - 1 THEN n - 1 ELSE i + 1)

\* C23: the selection of a reset RadioButtons with n options is one of
\* 0..n-1 under every sequence of keys; Up takes it down by one and Down up
\* by one, except that Up at 0 leaves it 0 and Down at n-1 leaves it n-1.
C23_SelectionClamped == [][C23_Step]_vars /\ []C23_InRange

\* Down has just been pressed on the last of three options
C23_Witness ==
    /\ Ready("RadioButtons")
    /\ op = "process_event"
    /\ event = KeyboardEvent(KEY_DOWN)
    /\ Len(widget.options) = 3
    /\ widget.selection = 2
    /\ widget.has_focus

(***************************************************************************)
(* Events offered to a fixed Frame before any reset.  Until its reset has  *)
(* run a widget holds _value = None and its cursor is where the            *)
(* constructor put it.                                                     *)
(***************************************************************************)
\* the keys that move the focus or are handed through, and the mouse
FocusEvents ==
    {KeyboardEvent(k) : k \in {KEY_TAB, KEY_BACK_TAB, KEY_UP, KEY_DOWN,
                               KEY_ESCAPE}}
    \cup {MouseEvent}

\* process_event of a widget that was never reset raises TypeError: a
\* TextBox takes len(self._value[self._line]) of None on KEY_UP and
\* KEY_DOWN, before it assigns anything but the line it is on already
Unset_process_event_raises(self, e) ==
    /\ self.kind = "TextBox"
    /\ IsKeyboardEvent(e)
    /\ e.key_code \in {KEY_UP, KEY_DOWN}

\* the widget of f that is offered the event raises
OfferedRaises(f, e) ==
    /\ HasIndex(f.layouts, f.focus)
    /\ HasLiveWidget(Index(f.layouts, f.focus))
    /\ Unset_process_event_raises(Offered(f), e)

\* frame.process_event(e) with no reset since Frame.fix
ProcessEventFixed ==
    /\ pc = "fixed"
    /\ ~raised
    /\ \E e \in FocusEvents :
          /\ IF OfferedRaises(Self, e)
             THEN /\ raised' = TRUE
                  /\ ret' = Raised
                  /\ UNCHANGED <<focus, layouts, canvas>>
             ELSE Returns(Frame_process_event(Self, e))
          /\ event' = e
    /\ op' = "process_event"
    /\ UNCHANGED <<pc, widget>>

NextFixed == Fix \/ ProcessEventFixed

SpecFixed == Init /\ [][NextFixed]_vars

\* C24: in a fixed Frame whose every Layout has a tab stop, after any
\* sequence of process_event calls and no reset, focus names a Layout of the
\* Frame, exactly one widget has has_focus, and it is the widget under the
\* cursor of that Layout, the one offered the next event.
C24_OneFocus ==
    (pc = "fixed" /\ EveryLayoutHasTabStop(Self)) =>
        /\ 0 <= focus
        /\ focus < Len(layouts)
        /\ Cursor(Self) \in Positions(Self)
        /\ FocusedWidgets(Self) = {Cursor(Self)}

\* a Tab has wrapped from the last Layout of three back to the first
C24_Witness ==
    /\ pc = "fixed"
    /\ op = "process_event"
    /\ event = KeyboardEvent(KEY_TAB)
    /\ ret = None
    /\ EveryLayoutHasTabStop(Self)
    /\ Len(layouts) = 3
    /\ focus = 0
    /\ FocusedWidgets(Self) = {Cursor(Self)}

(***************************************************************************)
(* Where Layout.reset leaves the cursor.                                   *)
(***************************************************************************)
\* the tab stops of Layout l (from 0) of the Frame f
TabStopsOf(f, l) == {p \in TabStops(f) : p[1] = l}

\* C25: a reset leaves the cursor of every Layout that has a tab stop on the
\* first tab stop of that Layout in declared order, whichever column the
\* cursor was in.
C25_ResetToFirst ==
    (op = "reset" /\ ~raised) =>
        \A l \in 0..(Len(layouts) - 1) :
            TabStopsOf(Self, l) /= {} =>
                <<l, layouts[l + 1].live_col, layouts[l + 1].live_widget>> =
                    First(TabStopsOf(Self, l))

(***************************************************************************)
(* UP and DOWN on a widget that has lines of its own.                      *)
(***************************************************************************)
\* the widget that is offered the events exists, has the focus and is a
\* RadioButtons or a TextBox
HoldsFocus(f) ==
    /\ HasIndex(f.layouts, f.focus)
    /\ HasLiveWidget(Index(f.layouts, f.focus))
    /\ Offered(f).has_focus
    /\ Offered(f).kind \in {"RadioButtons", "TextBox"}

C26_Step ==
    (/\ op' = "process_event"
     /\ HoldsFocus(Self)
     /\ event' \notin {KeyboardEvent(KEY_TAB), KeyboardEvent(KEY_BACK_TAB)}) =>
        /\ ~raised'
        /\ Cursor(Self)' = Cursor(Self)
        /\ FocusedWidgets(Self)' = FocusedWidgets(Self)
        /\ event' \in {KeyboardEvent(KEY_UP), KeyboardEvent(KEY_DOWN)} =>
              /\ Widget_process_event(Offered(Self), event').event = None
              /\ ret' = None

\* C26: while a RadioButtons or a TextBox has the focus, it consumes every
\* UP and DOWN key, at its first and last position too, and no event but
\* TAB and BACK_TAB changes which widgets are focused or where the cursor
\* of the Frame is.
C26_UpDownStay == [][C26_Step]_vars

\* Up has been pressed on a RadioButtons that is below a CheckBox and has its
\* first option selected: the RadioButtons still has the focus
C26_Witness ==
    /\ op = "process_event"
    /\ event = KeyboardEvent(KEY_UP)
    /\ ret = None
    /\ HoldsFocus(Self)
    /\ Offered(Self).kind = "RadioButtons"
    /\ Offered(Self).selection = 0
    /\ Cursor(Self)[3] = 1
    /\ FocusedWidgets(Self) = {Cursor(Self)}

(***************************************************************************)
(* The lines and the cursor of a TextBox.                                  *)
(***************************************************************************)
\* C27: under every sequence of keys a reset TextBox has at least one line,
\* its cursor line is one of its lines and its cursor column lies between 0
\* and the length of that line.
C27_WellFormed ==
    Ready("TextBox") =>
        /\ Len(widget.value) >= 1
        /\ 0 <= widget.line
        /\ widget.line < Len(widget.value)
        /\ 0 <= widget.column
        /\ widget.column <= Len(widget.value[widget.line + 1])

\* everything deleted, and Backspace pressed once more
C27_Witness ==
    /\ Ready("TextBox")
    /\ op = "process_event"
    /\ event = KeyboardEvent(KEY_BACK)
    /\ widget.value = << <<>> >>
    /\ widget.line = 0
    /\ widget.column = 0

=============================================================================
